---------------------------- MODULE Spec2Model ----------------------------
(***************************************************************************)
(* ARGO float pipeline: the FTP synchronizer (dataset_extraction_ftp.py)   *)
(* and the NetCDF-to-table converter (incois_raw_to_processed.py).         *)
(*                                                                         *)
(* Six specifications share this module, each over its own variables:      *)
(*   SpecConn  connect_ftp_with_retry, called by concurrent callers        *)
(*   SpecSync  download_all_floats, run repeatedly against a remote        *)
(*   SpecConv  preprocess_all_floats / convert_single_float                *)
(*   SpecRows  nc_to_df and the core/biogeochemical merge, as functions    *)
(*   SpecPipe  argo_pipeline.py run as a script                            *)
(*   SpecIdx   the converter followed by setup_vector_database             *)
(***************************************************************************)
EXTENDS Integers, Sequences, FiniteSets, TLC

(***************************************************************************)
(* Program constants of dataset_extraction_ftp.py                          *)
(***************************************************************************)
MAX_RETRIES == 10
RETRY_DELAY == 120

(***************************************************************************)
(* Bounds of the model                                                     *)
(***************************************************************************)
NumCallers == 2
NumFloats == 2
MaxRuns == 2
MaxVersion == 2
MaxChanges == 1
MaxLevels == 2
MaxProfiles == 1
\* multiprocessing.cpu_count() of the machine the synchronizer runs on
MAX_WORKERS == 2

Callers == 1..NumCallers
Floats == 1..NumFloats
Versions == 1..MaxVersion

VARIABLES
  \* ---- connect_ftp_with_retry, one activation per caller ----
  retries,      \* the local counter `retries`
  attempts,     \* number of FTP(FTP_HOST)/login attempts made so far
  retryLog,     \* number of "FTP busy (421). Retry ..." lines printed
  slept,        \* seconds spent in time.sleep
  connState     \* "loop" | "returned" | the name of the exception raised

connVars == <<retries, attempts, retryLog, slept, connState>>

VARIABLES
  \* ---- the archive and the local raw store ----
  remote,       \* remote[f] = [files: what nlst of the float's directory lists, ver: content version]
  store,        \* store[f][branch][role]: content of the local file, see Absent/Partial/Full
  \* ---- download_all_floats / a direct call of download_float_if_meta_changed ----
  runNo,        \* number of synchronizer invocations started
  runKind,      \* "none" | "batch" (download_all_floats) | "direct"
  mainPc,       \* "idle" | "list_connect" | "list_nlst" | "pool" | "direct" | "returned" | "raised"
  mainFtp,      \* the session of list_float_ids: "none" | "open" | "closed"
  results,      \* the list `results` of download_all_floats
  \* ---- download_float_if_meta_changed, one activation per float ----
  wpc,          \* position of the activation
  wftp,         \* its `ftp`: "none" | "open" | "closed"
  wres,         \* its `results`
  force,        \* its argument force_download
  retr,         \* roles for which this activation issued RETR
  \* ---- history ----
  store0,       \* the store when the current invocation started
  changed,      \* the remote changed since the current invocation started
  nChanges,     \* number of changes of the remote so far
  sameRemote,   \* the current invocation sees the remote the previous one saw
  prevKind,     \* runKind of the previous invocation
  prevOk        \* floats whose sync completed without failure in the previous invocation, a batch

syncVars == <<remote, store, runNo, runKind, mainPc, mainFtp, results,
              wpc, wftp, wres, force, retr, store0, changed, nChanges, sameRemote, prevKind, prevOk>>

VARIABLES
  \* ---- nc_to_df and the merge of convert_single_float, as functions ----
  rPc,          \* "start" | "core" | "done" | "KeyError"
  ds_prof,      \* the dataset of the core profile file
  ds_sprof,     \* the dataset of the biogeochemical profile file, or NoDataset
  df_prof,      \* nc_to_df(ds_prof, CORE_VARS, float_id)
  df_sprof,     \* nc_to_df(ds_sprof, CORE_VARS + bgc_vars, float_id)
  df            \* the table convert_single_float goes on to save

rowVars == <<rPc, ds_prof, ds_sprof, df_prof, df_sprof, df>>

VARIABLES
  \* ---- the raw store as the converter sees it, and the processed store ----
  raw,          \* raw[f] = [prof: file, sprof: file], see NoFile/EmptyFile/CorruptFile/NcFile
  processed,    \* processed[f]: incois/<id>.parquet, [exists, frame]
  ledger,       \* processed_hash.parquet: [exists, rows: <<[float_id, hash]>>]
  catalog,      \* argo_meta.parquet: [exists, rows]
  \* ---- preprocess_all_floats ----
  batchNo,      \* number of invocations started
  bpc,          \* "idle" | "loop" | "returned" | "raised"
  prof_files,   \* the floats of the *_prof.nc files still to convert, in rglob order
  updated_count,
  \* ---- convert_single_float, the one activation ----
  cpc,          \* "idle" | "gate" | "open" | "sprof" | "save" | "hash" | "meta" | "returned" | "raised"
  arg_float_id, \* the argument float_id of this activation
  current_hash,
  proc_df,      \* the ledger rows as loaded
  cdf,          \* the frame `df`
  variables,
  ret,          \* what the call returned: [df: "None" | "df", updated]
  raised,       \* the exception that left the call, or "none"
  \* ---- history ----
  opened,       \* files this activation opened with xr.open_dataset
  tables0,      \* <<processed, ledger, catalog>> when this activation began
  lastOk,       \* lastOk[f]: [hash, row] of the last conversion of f that returned (df, True)
  rawChanges    \* number of rewrites of raw files so far

convVars == <<raw, processed, ledger, catalog, batchNo, bpc, prof_files, updated_count,
              cpc, arg_float_id, current_hash, proc_df, cdf, variables, ret, raised,
              opened, tables0, lastOk, rawChanges>>

VARIABLES
  \* ---- argo_pipeline.py run as a script ----
  pipePc,       \* "start" | "ftp_module" | "names" | "imported" | "raised"
  pipeExc,      \* the exception that ended the script, or "none"
  environ,      \* os.environ: the names that are set
  dotenv,       \* the names the .env file sets
  ftpNames,     \* the namespace of the module dataset_extraction_ftp once it ran
  stagesRun     \* the stages the script has run to completion, in order

pipeVars == <<pipePc, pipeExc, environ, dotenv, ftpNames, stagesRun>>

VARIABLES
  \* ---- the text-embedding index (chromadb collection "argo_profiles") ----
  collection,   \* [exists, docs]: docs maps an id to the document stored under it
  addExisting,  \* what collection.add does with an id the collection holds: "ignored" | "raises"
  idxRuns,      \* number of calls of setup_vector_database
  idxExc        \* the exception that left the last call, or "none"

idxVars == <<collection, addExisting, idxRuns, idxExc>>

vars == <<connVars, syncVars, rowVars, convVars, pipeVars, idxVars>>

\* the variables of the other components
notConn == <<syncVars, rowVars, convVars, pipeVars, idxVars>>
notSync == <<connVars, rowVars, convVars, pipeVars, idxVars>>
notRows == <<connVars, syncVars, convVars, pipeVars, idxVars>>
notConv == <<connVars, syncVars, rowVars, pipeVars, idxVars>>
notPipe == <<connVars, syncVars, rowVars, convVars, idxVars>>
notIdx == <<connVars, syncVars, rowVars, pipeVars>>

(***************************************************************************)
(* connect_ftp_with_retry                                                  *)
(***************************************************************************)
\* the loop condition `while retries < MAX_RETRIES`
RetryGuardOffByOne(r) == r <= MAX_RETRIES
RetryGuard(r) == r < MAX_RETRIES

ConnInit ==
  /\ retries   = [c \in Callers |-> 0]
  /\ attempts  = [c \in Callers |-> 0]
  /\ retryLog  = [c \in Callers |-> 0]
  /\ slept     = [c \in Callers |-> 0]
  /\ connState = [c \in Callers |-> "loop"]

\* FTP(...) and login succeed: return ftp
ConnectOk(c) ==
  /\ connState[c] = "loop"
  /\ RetryGuard(retries[c])
  /\ attempts' = [attempts EXCEPT ![c] = @ + 1]
  /\ connState' = [connState EXCEPT ![c] = "returned"]
  /\ UNCHANGED <<retries, retryLog, slept>>
  /\ UNCHANGED notConn

\* error_temp whose text holds "421": count, log, sleep, loop again
ConnectBusy(c) ==
  /\ connState[c] = "loop"
  /\ RetryGuard(retries[c])
  /\ attempts' = [attempts EXCEPT ![c] = @ + 1]
  /\ retries' = [retries EXCEPT ![c] = @ + 1]
  /\ retryLog' = [retryLog EXCEPT ![c] = @ + 1]
  /\ slept' = [slept EXCEPT ![c] = @ + RETRY_DELAY]
  /\ UNCHANGED connState
  /\ UNCHANGED notConn

\* error_temp without "421": re-raised by the bare `raise`
ConnectTempOther(c) ==
  /\ connState[c] = "loop"
  /\ RetryGuard(retries[c])
  /\ attempts' = [attempts EXCEPT ![c] = @ + 1]
  /\ connState' = [connState EXCEPT ![c] = "error_temp"]
  /\ UNCHANGED <<retries, retryLog, slept>>
  /\ UNCHANGED notConn

\* any exception that is not error_temp (error_perm at login, OSError):
\* no handler in the loop, it propagates
ConnectOtherError(c) ==
  /\ connState[c] = "loop"
  /\ RetryGuard(retries[c])
  /\ attempts' = [attempts EXCEPT ![c] = @ + 1]
  /\ \E e \in {"error_perm", "OSError"} : connState' = [connState EXCEPT ![c] = e]
  /\ UNCHANGED <<retries, retryLog, slept>>
  /\ UNCHANGED notConn

\* loop condition false: raise ConnectionError
ConnectGiveUp(c) ==
  /\ connState[c] = "loop"
  /\ ~RetryGuard(retries[c])
  /\ connState' = [connState EXCEPT ![c] = "ConnectionError"]
  /\ UNCHANGED <<retries, attempts, retryLog, slept>>
  /\ UNCHANGED notConn

\* what a call of connect_ftp_with_retry ends with
ConnectResults == {"returned", "error_temp", "error_perm", "OSError", "ConnectionError"}

(***************************************************************************)
(* The archive and the local raw store                                     *)
(***************************************************************************)
Roles == {"meta", "tmp", "prof", "Sprof"}
Branches == {"normal", "bgc"}

\* what nlst of a float's directory may list
Listings == {{"prof"}, {"meta"}, {"meta", "prof"}, {"meta", "prof", "Sprof"}}

\* content of a local file
Absent == <<>>
Partial == <<"partial">>
Full(v) == <<"full", v>>

\* md5 of a file's bytes
file_hash(content) == <<"md5", content>>

\* exceptions of cwd, nlst and retrbinary
NetErrors == {"error_perm", "error_temp", "OSError"}

\* `is_bgc` and `out_base` of download_float_if_meta_changed
is_bgc(f) == "Sprof" \in remote[f].files
out_base(f) == IF is_bgc(f) THEN "bgc" ELSE "normal"

\* the test of lines 90-93: the stored metadata file exists, the download is
\* not forced and both hashes agree
MetaUnchangedNoHash(out_meta, tmp_meta, fd) == out_meta # Absent /\ ~fd
MetaUnchangedNever(out_meta, tmp_meta, fd) == FALSE
MetaUnchanged(out_meta, tmp_meta, fd) ==
  /\ out_meta # Absent
  /\ ~fd
  /\ file_hash(out_meta) = file_hash(tmp_meta)

\* the except clause that takes an exception of the activation
Handler(exc) == IF exc = "error_perm" THEN "Permission" ELSE "Failed"

FailureKinds == {"Permission", "Failed"}
SkipKinds == {"SkipNoMeta", "SkipUnchanged"}

Put(f, role, content) ==
  store' = [store EXCEPT ![f][out_base(f)][role] = content]

\* return from the activation: the finally clause quits the session if there is one
Leave(f, msgs) ==
  /\ wres' = [wres EXCEPT ![f] = @ \o msgs]
  /\ wpc' = [wpc EXCEPT ![f] = "done"]
  /\ wftp' = [wftp EXCEPT ![f] = IF @ = "open" THEN "closed" ELSE @]

\* an exception reaches `except error_perm` / `except Exception`
Fail(f, exc) == Leave(f, <<<<Handler(exc), f>>>>)

Running == {"connect", "list", "meta_xfer", "compare", "prof", "prof_xfer", "sprof", "sprof_xfer"}

SyncInit ==
  /\ remote \in [Floats -> [files : Listings, ver : {1}]]
  /\ store = [f \in Floats |-> [b \in Branches |-> [r \in Roles |-> Absent]]]
  /\ store0 = store
  /\ runNo = 0
  /\ runKind = "none"
  /\ mainPc = "idle"
  /\ mainFtp = "none"
  /\ results = <<>>
  /\ wpc = [f \in Floats |-> "idle"]
  /\ wftp = [f \in Floats |-> "none"]
  /\ wres = [f \in Floats |-> <<>>]
  /\ force = [f \in Floats |-> FALSE]
  /\ retr = [f \in Floats |-> {}]
  /\ changed = FALSE
  /\ nChanges = 0
  /\ sameRemote = FALSE
  /\ prevKind = "none"
  /\ prevOk = {}

Between == mainPc \in {"idle", "returned", "raised"}

NoFailure(f) == \A i \in 1..Len(wres[f]) : wres[f][i][1] \notin FailureKinds

\* a new invocation starts: fresh activations, history taken
NewRun(kind) ==
  /\ Between
  /\ runNo < MaxRuns
  /\ runNo' = runNo + 1
  /\ runKind' = kind
  /\ mainFtp' = "none"
  /\ results' = <<>>
  /\ wftp' = [f \in Floats |-> "none"]
  /\ wres' = [f \in Floats |-> <<>>]
  /\ retr' = [f \in Floats |-> {}]
  /\ store0' = store
  /\ sameRemote' = (runNo >= 1 /\ ~changed)
  /\ changed' = FALSE
  /\ prevKind' = runKind
  /\ prevOk' = IF runKind = "batch" /\ mainPc = "returned"
               THEN {f \in Floats : NoFailure(f)} ELSE {}
  /\ UNCHANGED <<remote, store, nChanges>>

\* the archive publishes new content for a float, or lists other files for it
RemoteChange(f) ==
  /\ Between
  /\ runNo >= 1
  /\ runNo < MaxRuns
  /\ \/ \E l \in Listings \ {remote[f].files} : remote' = [remote EXCEPT ![f].files = l]
     \/ /\ remote[f].ver < MaxVersion
        /\ remote' = [remote EXCEPT ![f].ver = @ + 1]
  /\ nChanges < MaxChanges
  /\ nChanges' = nChanges + 1
  /\ changed' = TRUE
  /\ UNCHANGED <<store, runNo, runKind, mainPc, mainFtp, results,
                 wpc, wftp, wres, force, retr, store0, sameRemote, prevKind, prevOk>>
  /\ UNCHANGED notSync

(***************************************************************************)
(* download_all_floats                                                     *)
(***************************************************************************)
BeginBatch ==
  /\ NewRun("batch")
  /\ mainPc' = "list_connect"
  /\ wpc' = [f \in Floats |-> "idle"]
  /\ force' = [f \in Floats |-> FALSE]
  /\ UNCHANGED notSync

\* list_float_ids: connect_ftp_with_retry; its exception leaves download_all_floats
L_Connect ==
  /\ mainPc = "list_connect"
  /\ \E r \in ConnectResults :
       IF r = "returned"
       THEN mainFtp' = "open" /\ mainPc' = "list_nlst"
       ELSE mainFtp' = mainFtp /\ mainPc' = "raised"
  /\ UNCHANGED <<remote, store, runNo, runKind, results, wpc, wftp, wres,
                 force, retr, store0, changed, nChanges, sameRemote, prevKind, prevOk>>
  /\ UNCHANGED notSync

\* list_float_ids: cwd, nlst, quit; then every float is submitted to the pool
L_List ==
  /\ mainPc = "list_nlst"
  /\ \/ /\ mainFtp' = "closed"
        /\ mainPc' = "pool"
        /\ wpc' = [f \in Floats |-> "queued"]
     \/ /\ \E e \in NetErrors : mainPc' = "raised"
        /\ UNCHANGED <<mainFtp, wpc>>
  /\ UNCHANGED <<remote, store, runNo, runKind, results, wftp, wres,
                 force, retr, store0, changed, nChanges, sameRemote, prevKind, prevOk>>
  /\ UNCHANGED notSync

\* as_completed yields a finished future; its messages extend `results`
Collect(f) ==
  /\ mainPc = "pool"
  /\ wpc[f] = "done"
  /\ results' = results \o wres[f]
  /\ wpc' = [wpc EXCEPT ![f] = "collected"]
  /\ UNCHANGED <<remote, store, runNo, runKind, mainPc, mainFtp, wftp, wres,
                 force, retr, store0, changed, nChanges, sameRemote, prevKind, prevOk>>
  /\ UNCHANGED notSync

BatchReturn ==
  /\ mainPc = "pool"
  /\ \A f \in Floats : wpc[f] = "collected"
  /\ mainPc' = "returned"
  /\ UNCHANGED <<remote, store, runNo, runKind, mainFtp, results, wpc, wftp, wres,
                 force, retr, store0, changed, nChanges, sameRemote, prevKind, prevOk>>
  /\ UNCHANGED notSync

(***************************************************************************)
(* download_float_if_meta_changed called on its own                        *)
(***************************************************************************)
CallDirect(f, fd) ==
  /\ NewRun("direct")
  /\ mainPc' = "direct"
  /\ wpc' = [g \in Floats |-> IF g = f THEN "connect" ELSE "idle"]
  /\ force' = [g \in Floats |-> g = f /\ fd]
  /\ UNCHANGED notSync

DirectReturn ==
  /\ mainPc = "direct"
  /\ \E f \in Floats : wpc[f] = "done"
  /\ mainPc' = "returned"
  /\ UNCHANGED <<remote, store, runNo, runKind, mainFtp, results, wpc, wftp, wres,
                 force, retr, store0, changed, nChanges, sameRemote, prevKind, prevOk>>
  /\ UNCHANGED notSync

(***************************************************************************)
(* download_float_if_meta_changed(f), lines 60-132                         *)
(***************************************************************************)
\* a pool thread takes the queued call
W_Start(f) ==
  /\ mainPc = "pool"
  /\ wpc[f] = "queued"
  /\ Cardinality({g \in Floats : wpc[g] \in Running}) < MAX_WORKERS
  /\ wpc' = [wpc EXCEPT ![f] = "connect"]
  /\ UNCHANGED <<remote, store, runNo, runKind, mainPc, mainFtp, results, wftp, wres,
                 force, retr, store0, changed, nChanges, sameRemote, prevKind, prevOk>>
  /\ UNCHANGED notSync

\* ftp = connect_ftp_with_retry()
W_Connect(f) ==
  /\ wpc[f] = "connect"
  /\ \E r \in ConnectResults :
       IF r = "returned"
       THEN /\ wftp' = [wftp EXCEPT ![f] = "open"]
            /\ wpc' = [wpc EXCEPT ![f] = "list"]
            /\ wres' = wres
       ELSE Fail(f, r)
  /\ UNCHANGED <<remote, store, runNo, runKind, mainPc, mainFtp, results,
                 force, retr, store0, changed, nChanges, sameRemote, prevKind, prevOk>>
  /\ UNCHANGED notSync

\* cwd and nlst; without a metadata file the float is skipped; else the
\* temporary file is opened for writing and RETR of the metadata file begins
W_List(f) ==
  /\ wpc[f] = "list"
  /\ \/ /\ \E e \in NetErrors : Fail(f, e)
        /\ UNCHANGED <<store, retr>>
     \/ /\ "meta" \notin remote[f].files
        /\ Leave(f, <<<<"SkipNoMeta", f>>>>)
        /\ UNCHANGED <<store, retr>>
     \/ /\ "meta" \in remote[f].files
        /\ Put(f, "tmp", Partial)
        /\ retr' = [retr EXCEPT ![f] = @ \cup {"meta"}]
        /\ wpc' = [wpc EXCEPT ![f] = "meta_xfer"]
        /\ UNCHANGED <<wres, wftp>>
  /\ UNCHANGED <<remote, runNo, runKind, mainPc, mainFtp, results,
                 force, store0, changed, nChanges, sameRemote, prevKind, prevOk>>
  /\ UNCHANGED notSync

\* the transfer of the metadata file ends: complete, or cut by an exception
W_MetaXfer(f) ==
  /\ wpc[f] = "meta_xfer"
  /\ \/ /\ \E e \in NetErrors : Fail(f, e)
        /\ UNCHANGED store
     \/ /\ Put(f, "tmp", Full(remote[f].ver))
        /\ wpc' = [wpc EXCEPT ![f] = "compare"]
        /\ UNCHANGED <<wres, wftp>>
  /\ UNCHANGED <<remote, runNo, runKind, mainPc, mainFtp, results,
                 force, retr, store0, changed, nChanges, sameRemote, prevKind, prevOk>>
  /\ UNCHANGED notSync

\* lines 88-102: compare the hashes; drop the temporary file, or put it in place
W_Compare(f) ==
  /\ wpc[f] = "compare"
  /\ LET dir == store[f][out_base(f)] IN
       IF MetaUnchanged(dir.meta, dir.tmp, force[f])
       THEN /\ Put(f, "tmp", Absent)
            /\ Leave(f, <<<<"SkipUnchanged", f>>>>)
       ELSE /\ store' = [store EXCEPT ![f][out_base(f)] =
                           [@ EXCEPT !.meta = dir.tmp, !.tmp = Absent]]
            /\ wres' = [wres EXCEPT ![f] = Append(@, <<"MetaUpdated", f>>)]
            /\ wpc' = [wpc EXCEPT ![f] = "prof"]
            /\ wftp' = wftp
  /\ UNCHANGED <<remote, runNo, runKind, mainPc, mainFtp, results,
                 force, retr, store0, changed, nChanges, sameRemote, prevKind, prevOk>>
  /\ UNCHANGED notSync

\* lines 105-109: the core profile file, if listed, is opened for writing
\* under its own name and RETR begins
W_ProfOpen(f) ==
  /\ wpc[f] = "prof"
  /\ IF "prof" \in remote[f].files
     THEN /\ Put(f, "prof", Partial)
          /\ retr' = [retr EXCEPT ![f] = @ \cup {"prof"}]
          /\ wpc' = [wpc EXCEPT ![f] = "prof_xfer"]
     ELSE /\ wpc' = [wpc EXCEPT ![f] = "sprof"]
          /\ UNCHANGED <<store, retr>>
  /\ UNCHANGED <<remote, runNo, runKind, mainPc, mainFtp, results, wftp, wres,
                 force, store0, changed, nChanges, sameRemote, prevKind, prevOk>>
  /\ UNCHANGED notSync

W_ProfXfer(f) ==
  /\ wpc[f] = "prof_xfer"
  /\ \/ /\ \E e \in NetErrors : Fail(f, e)
        /\ UNCHANGED store
     \/ /\ Put(f, "prof", Full(remote[f].ver))
        /\ wres' = [wres EXCEPT ![f] = Append(@, <<"DownloadedProf", f>>)]
        /\ wpc' = [wpc EXCEPT ![f] = "sprof"]
        /\ wftp' = wftp
  /\ UNCHANGED <<remote, runNo, runKind, mainPc, mainFtp, results,
                 force, retr, store0, changed, nChanges, sameRemote, prevKind, prevOk>>
  /\ UNCHANGED notSync

\* lines 113-116: for a biogeochemical float the Sprof file is opened for
\* writing under its own name and RETR begins; else the call returns
W_SprofOpen(f) ==
  /\ wpc[f] = "sprof"
  /\ IF is_bgc(f)
     THEN /\ Put(f, "Sprof", Partial)
          /\ retr' = [retr EXCEPT ![f] = @ \cup {"Sprof"}]
          /\ wpc' = [wpc EXCEPT ![f] = "sprof_xfer"]
          /\ UNCHANGED <<wres, wftp>>
     ELSE /\ Leave(f, <<>>)
          /\ UNCHANGED <<store, retr>>
  /\ UNCHANGED <<remote, runNo, runKind, mainPc, mainFtp, results,
                 force, store0, changed, nChanges, sameRemote, prevKind, prevOk>>
  /\ UNCHANGED notSync

W_SprofXfer(f) ==
  /\ wpc[f] = "sprof_xfer"
  /\ \/ /\ \E e \in NetErrors : Fail(f, e)
        /\ UNCHANGED store
     \/ /\ Put(f, "Sprof", Full(remote[f].ver))
        /\ Leave(f, <<<<"DownloadedSprof", f>>>>)
  /\ UNCHANGED <<remote, runNo, runKind, mainPc, mainFtp, results,
                 force, retr, store0, changed, nChanges, sameRemote, prevKind, prevOk>>
  /\ UNCHANGED notSync

SyncNext ==
  \/ BeginBatch
  \/ L_Connect
  \/ L_List
  \/ BatchReturn
  \/ DirectReturn
  \/ \E f \in Floats :
       \/ RemoteChange(f)
       \/ Collect(f)
       \/ \E fd \in BOOLEAN : CallDirect(f, fd)
       \/ W_Start(f)
       \/ W_Connect(f)
       \/ W_List(f)
       \/ W_MetaXfer(f)
       \/ W_Compare(f)
       \/ W_ProfOpen(f)
       \/ W_ProfXfer(f)
       \/ W_SprofOpen(f)
       \/ W_SprofXfer(f)

(***************************************************************************)
(* incois_raw_to_processed.py: datasets, nc_to_df, the merge               *)
(***************************************************************************)
\* a value of a NetCDF variable: missing (NaN, NaT), infinite, or a number
NaN == [k |-> "nan", v |-> 0]
Inf == [k |-> "inf", v |-> 0]
Num(x) == [k |-> "num", v |-> x]
isnull(x) == x = NaN
\* np.where(np.isfinite(x), x, np.nan)
finite_or_nan(x) == IF x.k = "num" THEN x ELSE NaN

CORE_VARS == <<"TEMP", "PSAL", "PRES">>

BGC_VAR_MAP ==
  [DOXY |-> "Dissolved_Oxygen(umol/kg)",
   PH_IN_SITU_TOTAL |-> "pH_Value",
   CHLA |-> "Chlorophyll_a(mg/m3)",
   BBP700 |-> "Backscatter_700nm(m-1)",
   NITRATE |-> "Nitrate(umol/kg)",
   DOWNWELLING_PAR |-> "Downwelling_PAR(umol/m2/s)"]

\* the order of BGC_VAR_MAP.keys()
BGC_KEYS == <<"DOXY", "PH_IN_SITU_TOTAL", "CHLA", "BBP700", "NITRATE", "DOWNWELLING_PAR">>

Range(q) == {q[i] : i \in 1..Len(q)}

\* lines 79-81
col_name(var) ==
  IF var \in DOMAIN BGC_VAR_MAP THEN BGC_VAR_MAP[var]
  ELSE IF var = "TEMP" THEN "Temperature(C)"
  ELSE IF var = "PSAL" THEN "Salinity(psu)"
  ELSE var

\* the columns of df_dict before the variables are added (the derived
\* Depth(m) column is not carried by this model); Source is history: the file
\* a row was read from
BaseCols == {"Float_ID", "Cycle_Number", "DateTime", "Latitude", "Longitude",
             "Pressure(dbar)", "Source"}

key_cols == {"Pressure(dbar)", "Temperature(C)", "Salinity(psu)"}
merge_keys == {"Float_ID", "Cycle_Number", "DateTime", "Latitude", "Longitude",
               "Pressure(dbar)"}

NullCount(row, cols) == Cardinality({c \in cols : isnull(row[c])})

\* lines 88-89: fewer than two of the key columns null, and not both of
\* latitude and longitude null
KeepRowLatOrLon(row) ==
  /\ NullCount(row, key_cols) < 2
  /\ ~(isnull(row["Latitude"]) \/ isnull(row["Longitude"]))
KeepRow(row) ==
  /\ NullCount(row, key_cols) < 2
  /\ ~(isnull(row["Latitude"]) /\ isnull(row["Longitude"]))

\* a dataset: [src, vars: the names `in ds`, prof: one record per cycle with
\* its levels]; every cycle has n_levels levels
NoDataset == [src |-> "none", vars |-> {}, prof |-> <<>>]
n_levels(ds) == IF Len(ds.prof) = 0 THEN 0 ELSE Len(ds.prof[1].lev)

Needed == {"CYCLE_NUMBER", "PRES", "JULD", "LATITUDE", "LONGITUDE"}

\* lines 62-83: the row of cycle i, level j
RawRow(ds, cols, extra, float_id, i, j) ==
  LET pr == ds.prof[i]
      var_of(c) == CHOOSE v \in extra : col_name(v) = c
  IN  [c \in cols |->
         CASE c = "Float_ID" -> Num(float_id)
           [] c = "Cycle_Number" -> pr.CYCLE_NUMBER
           [] c = "DateTime" -> pr.JULD
           [] c = "Latitude" -> pr.LATITUDE
           [] c = "Longitude" -> pr.LONGITUDE
           [] c = "Pressure(dbar)" -> pr.lev[j]["PRES"]
           [] c = "Source" -> Num(IF ds.src = "Sprof" THEN 1 ELSE 0)
           [] OTHER -> finite_or_nan(pr.lev[j][var_of(c)])]

\* nc_to_df: [err, cols, rows]; a variable that is read but not in the
\* dataset, or a key column that was not built, is a KeyError
nc_to_df(ds, vars_to_extract, float_id) ==
  LET extra == {v \in Range(vars_to_extract) : v \in ds.vars /\ v # "PRES"}
      cols == BaseCols \cup {col_name(v) : v \in extra}
      nl == n_levels(ds)
      all == [k \in 1..(Len(ds.prof) * nl) |->
                RawRow(ds, cols, extra, float_id, ((k - 1) \div nl) + 1, ((k - 1) % nl) + 1)]
  IN  IF ~(Needed \subseteq ds.vars) \/ ~(key_cols \subseteq cols)
      THEN [err |-> "KeyError", cols |-> {}, rows |-> <<>>]
      ELSE [err |-> "none", cols |-> cols, rows |-> SelectSeq(all, KeepRow)]

\* pd.concat([a, b], ignore_index=True): the union of the columns, NaN where
\* a frame lacks a column
Widen(row, cols) == [c \in cols |-> IF c \in DOMAIN row THEN row[c] ELSE NaN]
concat(a, b) ==
  LET cols == a.cols \cup b.cols
  IN  [err |-> "none", cols |-> cols,
       rows |-> [i \in 1..(Len(a.rows) + Len(b.rows)) |->
                   IF i <= Len(a.rows) THEN Widen(a.rows[i], cols)
                   ELSE Widen(b.rows[i - Len(a.rows)], cols)]]

Key(row) == [c \in merge_keys |-> row[c]]

\* indices of `rows` that drop_duplicates(subset=merge_keys, keep=...) keeps
KeptFirst(rows) == {i \in 1..Len(rows) : \A j \in 1..(i - 1) : Key(rows[j]) # Key(rows[i])}
KeptLast(rows) == {i \in 1..Len(rows) : \A j \in (i + 1)..Len(rows) : Key(rows[j]) # Key(rows[i])}

RECURSIVE Pick(_, _, _)
Pick(rows, keep, i) ==
  IF i > Len(rows) THEN <<>>
  ELSE (IF i \in keep THEN <<rows[i]>> ELSE <<>>) \o Pick(rows, keep, i + 1)

drop_duplicates_keep_first(frame) ==
  [frame EXCEPT !.rows = Pick(frame.rows, KeptFirst(frame.rows), 1)]
drop_duplicates(frame) == [frame EXCEPT !.rows = Pick(frame.rows, KeptLast(frame.rows), 1)]

\* bgc_vars = [v for v in BGC_VAR_MAP.keys() if v in ds_sprof.variables]
bgc_vars(ds) == SelectSeq(BGC_KEYS, LAMBDA v : v \in ds.vars)

\* lines 133-139: the table after the biogeochemical file was read
merged(prof_frame, dsS, float_id) ==
  LET s == nc_to_df(dsS, CORE_VARS \o bgc_vars(dsS), float_id)
  IN  IF s.err # "none" THEN s ELSE drop_duplicates(concat(prof_frame, s))

(***************************************************************************)
(* The datasets the functions are applied to                               *)
(***************************************************************************)
CoreSet == {"CYCLE_NUMBER", "JULD", "LATITUDE", "LONGITUDE", "PRES", "TEMP", "PSAL"}

SeqsUpTo(S, n) == UNION {[1..m -> S] : m \in 1..n}

CoreLevels == [PRES : {NaN, Num(10), Num(20)}, TEMP : {NaN, Inf, Num(92)}, PSAL : {NaN, Num(345)}]
BgcLevels == [PRES : {NaN, Num(10), Num(20)}, TEMP : {NaN, Num(92)}, PSAL : {Num(350)},
              DOXY : {NaN, Num(200)}]

Cycles(Levels) ==
  UNION {[1..n -> [CYCLE_NUMBER : {Num(1)}, JULD : {Num(7000)},
                   LATITUDE : {NaN, Num(-481)}, LONGITUDE : {NaN, Num(770)},
                   lev : [1..m -> Levels]]]
         : <<n, m>> \in (1..MaxProfiles) \X (1..MaxLevels)}

CoreDatasets == [src : {"prof"}, vars : {CoreSet}, prof : Cycles(CoreLevels)]
BgcDatasets == [src : {"Sprof"}, vars : {CoreSet \cup {"DOXY"}}, prof : Cycles(BgcLevels)]

\* pressure 10, 20, 30; temperature 9.2, missing, 9.0; salinity 34.5, 34.6,
\* 34.4; latitude -48.1 (tenths)
ScenarioDataset ==
  [src |-> "prof", vars |-> CoreSet,
   prof |-> <<[CYCLE_NUMBER |-> Num(1), JULD |-> Num(7000),
               LATITUDE |-> Num(-481), LONGITUDE |-> Num(770),
               lev |-> <<[PRES |-> Num(10), TEMP |-> Num(92), PSAL |-> Num(345)],
                         [PRES |-> Num(20), TEMP |-> NaN, PSAL |-> Num(346)],
                         [PRES |-> Num(30), TEMP |-> Num(90), PSAL |-> Num(344)]>>]>>]

NoFrame == [err |-> "none", cols |-> {}, rows |-> <<>>]

RowsInit ==
  /\ rPc = "start"
  /\ ds_prof \in CoreDatasets \cup {ScenarioDataset}
  /\ ds_sprof = NoDataset
  /\ df_prof = NoFrame
  /\ df_sprof = NoFrame
  /\ df = NoFrame

\* lines 120-127: df_prof = nc_to_df(ds_prof, CORE_VARS, float_id);
\* ds_prof.close(); df = df_prof.copy()
R_Core ==
  /\ rPc = "start"
  /\ df_prof' = nc_to_df(ds_prof, CORE_VARS, 1)
  /\ ds_prof' = NoDataset
  /\ df' = df_prof'
  /\ rPc' = IF df_prof'.err = "none" THEN "core" ELSE "KeyError"
  /\ UNCHANGED <<ds_sprof, df_sprof>>
  /\ UNCHANGED notRows

\* no biogeochemical file: the table is the core table
R_NoSprof ==
  /\ rPc = "core"
  /\ rPc' = "done"
  /\ UNCHANGED <<ds_prof, ds_sprof, df_prof, df_sprof, df>>
  /\ UNCHANGED notRows

\* lines 131-140: the biogeochemical file is opened, read, closed; its rows
\* are appended and the table deduplicated
R_Merge ==
  /\ rPc = "core"
  /\ \E d \in BgcDatasets :
       /\ ds_sprof' = NoDataset
       /\ df_sprof' = nc_to_df(d, CORE_VARS \o bgc_vars(d), 1)
       /\ df' = merged(df_prof, d, 1)
  /\ rPc' = IF df'.err = "none" THEN "done" ELSE "KeyError"
  /\ UNCHANGED <<ds_prof, df_prof>>
  /\ UNCHANGED notRows

RowsNext == R_Core \/ R_NoSprof \/ R_Merge


ConnNext ==
  \E c \in Callers :
    \/ ConnectOk(c)
    \/ ConnectBusy(c)
    \/ ConnectTempOther(c)
    \/ ConnectOtherError(c)
    \/ ConnectGiveUp(c)

\* the variables of a component that a specification leaves out
(***************************************************************************)
(* incois_raw_to_processed.py: convert_single_float, preprocess_all_floats *)
(***************************************************************************)
\* a raw file: absent, zero bytes long, not readable as NetCDF, or a dataset
NoFile == [bytes |-> "", kind |-> "none", ds |-> NoDataset]
EmptyFile == [bytes |-> "zero", kind |-> "empty", ds |-> NoDataset]
CorruptFile(name) == [bytes |-> name, kind |-> "corrupt", ds |-> NoDataset]
NcFile(name, ds) == [bytes |-> name, kind |-> "nc", ds |-> ds]

OneCycle(levs) ==
  <<[CYCLE_NUMBER |-> Num(1), JULD |-> Num(7000), LATITUDE |-> Num(-481),
     LONGITUDE |-> Num(770), lev |-> levs]>>

\* the core profile files the raw store may hold
ProfFiles ==
  { EmptyFile,
    CorruptFile("p-corrupt"),
    NcFile("p-one", [src |-> "prof", vars |-> CoreSet,
       prof |-> OneCycle(<<[PRES |-> Num(10), TEMP |-> Num(92), PSAL |-> Num(345)]>>)]),
    NcFile("p-two", [src |-> "prof", vars |-> CoreSet,
       prof |-> OneCycle(<<[PRES |-> Num(10), TEMP |-> Num(92), PSAL |-> Num(345)],
                           [PRES |-> Num(20), TEMP |-> NaN, PSAL |-> Num(346)]>>)]),
    NcFile("p-notemp", [src |-> "prof", vars |-> CoreSet \ {"TEMP"},
       prof |-> OneCycle(<<[PRES |-> Num(10), PSAL |-> Num(345)]>>)]),
    NcFile("p-nopres", [src |-> "prof", vars |-> CoreSet \ {"PRES"},
       prof |-> OneCycle(<<[TEMP |-> Num(92), PSAL |-> Num(345)]>>)]),
    NcFile("p-allnan", [src |-> "prof", vars |-> CoreSet,
       prof |-> OneCycle(<<[PRES |-> Num(10), TEMP |-> NaN, PSAL |-> NaN]>>)]) }

\* the biogeochemical profile files
SprofFiles ==
  { CorruptFile("s-corrupt"),
    NcFile("s-doxy", [src |-> "Sprof", vars |-> CoreSet \cup {"DOXY"},
       prof |-> OneCycle(<<[PRES |-> Num(10), TEMP |-> Num(92), PSAL |-> Num(350),
                            DOXY |-> Num(200)]>>)]),
    NcFile("s-nopsal", [src |-> "Sprof", vars |-> (CoreSet \ {"PSAL"}) \cup {"DOXY"},
       prof |-> OneCycle(<<[PRES |-> Num(10), TEMP |-> Num(92), DOXY |-> Num(200)]>>)]) }

exists(file) == file.kind # "none"
getsize_is_zero(file) == file.kind = "empty"

NoTable == [exists |-> FALSE, rows |-> <<>>]
Table(rows) == [exists |-> TRUE, rows |-> rows]

\* line 112: ((proc_df["float_id"] == arg_float_id) & (proc_df["hash"] == current_hash)).any()
GateHitAll(rows, fid, h) ==
  /\ rows # <<>>
  /\ \A i \in 1..Len(rows) : rows[i].float_id = fid /\ rows[i].hash = h
GateHit(rows, fid, h) ==
  \E i \in 1..Len(rows) : rows[i].float_id = fid /\ rows[i].hash = h

\* lines 151-152 and 207-208: drop the rows of the float, append the new row
WithoutNone(rows, fid, col) == rows
Without(rows, fid, col) == SelectSeq(rows, LAMBDA r : r[col] # fid)
UpsertOnlyNew(rows, fid, col, row) == <<row>>
Upsert(rows, fid, col, row) == Append(Without(rows, fid, col), row)

\* Series.min / Series.max, which skip missing values; NaN (NaT) if none is left
Present(frame, col) ==
  {frame.rows[i][col].v : i \in {k \in 1..Len(frame.rows) : ~isnull(frame.rows[k][col])}}
ColMin(frame, col) ==
  IF Present(frame, col) = {} THEN NaN
  ELSE Num(CHOOSE m \in Present(frame, col) : \A x \in Present(frame, col) : m <= x)
ColMax(frame, col) ==
  IF Present(frame, col) = {} THEN NaN
  ELSE Num(CHOOSE m \in Present(frame, col) : \A x \in Present(frame, col) : m >= x)
nunique(frame, col) == Cardinality(Present(frame, col))

\* lines 185-203 (the depth columns and the Summary text are not carried)
meta_entry(fid, frame, vs) ==
  [Float_ID |-> fid,
   Num_Profiles |-> nunique(frame, "Cycle_Number"),
   Num_Rows |-> Len(frame.rows),
   DateStart |-> ColMin(frame, "DateTime"),
   DateEnd |-> ColMax(frame, "DateTime"),
   LatMin |-> ColMin(frame, "Latitude"),
   LatMax |-> ColMax(frame, "Latitude"),
   LonMin |-> ColMin(frame, "Longitude"),
   LonMax |-> ColMax(frame, "Longitude"),
   TempMin |-> ColMin(frame, "Temperature(C)"),
   TempMax |-> ColMax(frame, "Temperature(C)"),
   SalinityMin |-> ColMin(frame, "Salinity(psu)"),
   SalinityMax |-> ColMax(frame, "Salinity(psu)"),
   BGC_Vars |-> vs]

\* line 175: stats['time_start'].date() and stats['time_end'].date(); NaT
\* has no date(), the call raises ValueError
SummaryRaises(frame) == isnull(ColMin(frame, "DateTime")) \/ isnull(ColMax(frame, "DateTime"))

ConvInit ==
  /\ raw \in [Floats -> [prof : ProfFiles \cup {NoFile}, sprof : SprofFiles \cup {NoFile}]]
  /\ processed = [f \in Floats |-> [exists |-> FALSE, frame |-> NoFrame]]
  /\ ledger = NoTable
  /\ catalog = NoTable
  /\ batchNo = 0
  /\ bpc = "idle"
  /\ prof_files = <<>>
  /\ updated_count = 0
  /\ cpc = "idle"
  /\ arg_float_id = 0
  /\ current_hash = <<>>
  /\ proc_df = <<>>
  /\ cdf = NoFrame
  /\ variables = <<>>
  /\ ret = [df |-> "None", updated |-> FALSE]
  /\ raised = "none"
  /\ opened = {}
  /\ tables0 = <<processed, ledger, catalog>>
  /\ lastOk = [f \in Floats |-> [hash |-> <<>>, row |-> <<>>]]
  /\ rawChanges = 0

callVars == <<cpc, arg_float_id, current_hash, proc_df, cdf, variables, ret, raised, opened, tables0>>

\* the synchronizer, or anyone, rewrites a raw file between two invocations
RawChange(f) ==
  /\ bpc \in {"returned", "raised"}
  /\ batchNo < MaxRuns
  /\ rawChanges < MaxChanges
  /\ rawChanges' = rawChanges + 1
  /\ \/ \E p \in (ProfFiles \cup {NoFile}) \ {raw[f].prof} : raw' = [raw EXCEPT ![f].prof = p]
     \/ \E p \in (SprofFiles \cup {NoFile}) \ {raw[f].sprof} : raw' = [raw EXCEPT ![f].sprof = p]
  /\ UNCHANGED <<processed, ledger, catalog, batchNo, bpc, prof_files, updated_count,
                 callVars, lastOk>>
  /\ UNCHANGED notConv

Injective(q) == \A i, j \in 1..Len(q) : q[i] = q[j] => i = j
Orders(S) == {q \in [1..Cardinality(S) -> S] : Injective(q)}

\* lines 221-231: the *_prof.nc files under raw_root, in the order rglob gives
B_Begin ==
  /\ bpc \in {"idle", "returned", "raised"}
  /\ cpc \in {"idle", "returned", "raised"}
  /\ batchNo < MaxRuns
  /\ batchNo' = batchNo + 1
  /\ bpc' = "loop"
  /\ prof_files' \in Orders({f \in Floats : exists(raw[f].prof)})
  /\ updated_count' = 0
  /\ cpc' = "idle"
  /\ raised' = "none"
  /\ UNCHANGED <<raw, processed, ledger, catalog, arg_float_id, current_hash, proc_df, cdf,
                 variables, ret, opened, tables0, lastOk, rawChanges>>
  /\ UNCHANGED notConv

\* lines 232-236: the next file; convert_single_float is entered (line 98)
B_Call ==
  /\ bpc = "loop"
  /\ cpc = "idle"
  /\ prof_files # <<>>
  /\ arg_float_id' = Head(prof_files)
  /\ prof_files' = Tail(prof_files)
  /\ cpc' = "gate"
  /\ current_hash' = <<>>
  /\ proc_df' = <<>>
  /\ cdf' = NoFrame
  /\ variables' = <<>>
  /\ opened' = {}
  /\ tables0' = <<processed, ledger, catalog>>
  /\ UNCHANGED <<raw, processed, ledger, catalog, batchNo, bpc, updated_count, ret, raised,
                 lastOk, rawChanges>>
  /\ UNCHANGED notConv

\* lines 237-240: the call returned; count it
B_Returned ==
  /\ bpc = "loop"
  /\ cpc = "returned"
  /\ updated_count' = IF ret.updated THEN updated_count + 1 ELSE updated_count
  /\ cpc' = "idle"
  /\ UNCHANGED <<raw, processed, ledger, catalog, batchNo, bpc, prof_files,
                 arg_float_id, current_hash, proc_df, cdf, variables, ret, raised,
                 opened, tables0, lastOk, rawChanges>>
  /\ UNCHANGED notConv

\* the call raised: nothing in preprocess_all_floats catches it
B_Raised ==
  /\ bpc = "loop"
  /\ cpc = "raised"
  /\ bpc' = "raised"
  /\ UNCHANGED <<raw, processed, ledger, catalog, batchNo, prof_files, updated_count,
                 callVars, lastOk, rawChanges>>
  /\ UNCHANGED notConv

\* lines 242-243
B_Done ==
  /\ bpc = "loop"
  /\ cpc = "idle"
  /\ prof_files = <<>>
  /\ bpc' = "returned"
  /\ UNCHANGED <<raw, processed, ledger, catalog, batchNo, prof_files, updated_count,
                 callVars, lastOk, rawChanges>>
  /\ UNCHANGED notConv

Return(d, u) == cpc' = "returned" /\ ret' = [df |-> d, updated |-> u] /\ raised' = raised
Raise(e) == cpc' = "raised" /\ raised' = e /\ ret' = ret

\* lines 100-116: the file check, the hash, the ledger gate
C_Gate ==
  /\ cpc = "gate"
  /\ LET file == raw[arg_float_id].prof
         h == file_hash(file.bytes)
     IN  IF ~exists(file) \/ getsize_is_zero(file)
         THEN Return("None", FALSE) /\ UNCHANGED <<current_hash, proc_df>>
         ELSE /\ current_hash' = h
              /\ proc_df' = ledger.rows
              /\ IF ledger.exists /\ GateHit(ledger.rows, arg_float_id, h)
                 THEN Return("None", FALSE)
                 ELSE cpc' = "open" /\ UNCHANGED <<ret, raised>>
  /\ UNCHANGED <<raw, processed, ledger, catalog, batchNo, bpc, prof_files, updated_count,
                 arg_float_id, cdf, variables, opened, tables0, lastOk, rawChanges>>
  /\ UNCHANGED notConv

\* lines 118-127: open the core file and build its frame
C_OpenProf ==
  /\ cpc = "open"
  /\ opened' = opened \cup {"prof"}
  /\ LET file == raw[arg_float_id].prof
         frame == nc_to_df(file.ds, CORE_VARS, arg_float_id)
     IN  IF file.kind = "corrupt"
         THEN Return("None", FALSE) /\ cdf' = cdf
         ELSE IF frame.err # "none"
         THEN Raise(frame.err) /\ cdf' = cdf
         ELSE cdf' = frame /\ cpc' = "sprof" /\ UNCHANGED <<ret, raised>>
  /\ UNCHANGED <<raw, processed, ledger, catalog, batchNo, bpc, prof_files, updated_count,
                 arg_float_id, current_hash, proc_df, variables, tables0, lastOk, rawChanges>>
  /\ UNCHANGED notConv

\* lines 129-142: the biogeochemical file, if there is one
C_Sprof ==
  /\ cpc = "sprof"
  /\ LET file == raw[arg_float_id].sprof
         frame == merged(cdf, file.ds, arg_float_id)
     IN  IF ~exists(file)
         THEN cpc' = "save" /\ UNCHANGED <<cdf, variables, ret, raised, opened>>
         ELSE /\ opened' = opened \cup {"Sprof"}
              /\ IF file.kind \in {"corrupt", "empty"}
                 THEN cpc' = "save" /\ UNCHANGED <<cdf, variables, ret, raised>>
                 ELSE IF frame.err # "none"
                 THEN Raise(frame.err) /\ UNCHANGED <<cdf, variables>>
                 ELSE /\ cdf' = frame
                      /\ variables' = [i \in 1..Len(bgc_vars(file.ds)) |->
                                         BGC_VAR_MAP[bgc_vars(file.ds)[i]]]
                      /\ cpc' = "save"
                      /\ UNCHANGED <<ret, raised>>
  /\ UNCHANGED <<raw, processed, ledger, catalog, batchNo, bpc, prof_files, updated_count,
                 arg_float_id, current_hash, proc_df, tables0, lastOk, rawChanges>>
  /\ UNCHANGED notConv

\* lines 144-148: df.to_parquet(parquet_path)
C_Save ==
  /\ cpc = "save"
  /\ processed' = [processed EXCEPT ![arg_float_id] = [exists |-> TRUE, frame |-> cdf]]
  /\ cpc' = "hash"
  /\ UNCHANGED <<raw, ledger, catalog, batchNo, bpc, prof_files, updated_count,
                 arg_float_id, current_hash, proc_df, cdf, variables, ret, raised,
                 opened, tables0, lastOk, rawChanges>>
  /\ UNCHANGED notConv

\* lines 150-153: the ledger row of the float is replaced and the ledger written
C_Hash ==
  /\ cpc = "hash"
  /\ proc_df' = Upsert(proc_df, arg_float_id, "float_id",
                       [float_id |-> arg_float_id, hash |-> current_hash])
  /\ ledger' = Table(proc_df')
  /\ cpc' = "meta"
  /\ UNCHANGED <<raw, processed, catalog, batchNo, bpc, prof_files, updated_count,
                 arg_float_id, current_hash, cdf, variables, ret, raised,
                 opened, tables0, lastOk, rawChanges>>
  /\ UNCHANGED notConv

\* lines 155-215: the statistics, the summary, the catalog row; return (df, True)
C_Meta ==
  /\ cpc = "meta"
  /\ LET row == meta_entry(arg_float_id, cdf, variables)
     IN  IF SummaryRaises(cdf)
         THEN Raise("ValueError") /\ UNCHANGED <<catalog, lastOk>>
         ELSE /\ catalog' = Table(IF catalog.exists
                                  THEN Upsert(catalog.rows, arg_float_id, "Float_ID", row)
                                  ELSE <<row>>)
              /\ lastOk' = [lastOk EXCEPT ![arg_float_id] = [hash |-> current_hash, row |-> row]]
              /\ Return("df", TRUE)
  /\ UNCHANGED <<raw, processed, ledger, batchNo, bpc, prof_files, updated_count,
                 arg_float_id, current_hash, proc_df, cdf, variables,
                 opened, tables0, rawChanges>>
  /\ UNCHANGED notConv

ConvNext ==
  \/ B_Begin
  \/ B_Call
  \/ B_Returned
  \/ B_Raised
  \/ B_Done
  \/ C_Gate
  \/ C_OpenProf
  \/ C_Sprof
  \/ C_Save
  \/ C_Hash
  \/ C_Meta
  \/ \E f \in Floats : RawChange(f)

(***************************************************************************)
(* argo_pipeline.py, run as a script                                       *)
(***************************************************************************)
\* the names the scripts read with os.getenv
EnvNames == {"BASE_DIR", "RAW_ROOT", "OUT_ROOT", "EMAIL", "POSTGRES_URL"}

\* the names dataset_extraction_ftp.py binds at module level (lines 1-148)
FtpModuleNames ==
  {"os", "Path", "FTP", "error_perm", "error_temp", "tqdm", "ThreadPoolExecutor",
   "as_completed", "multiprocessing", "hashlib", "load_dotenv", "time",
   "MAX_WORKERS", "MAX_RETRIES", "RETRY_DELAY", "FTP_HOST", "FTP_ROOT",
   "connect_ftp_with_retry", "list_float_ids", "file_hash",
   "download_float_if_meta_changed", "download_all_floats"}

\* argo_pipeline.py line 3: from dataset_extraction_ftp import ...
ImportedFromFtp == {"download_all_floats", "NORMAL_DIR", "BGC_DIR"}

PipeInit ==
  /\ pipePc = "start"
  /\ pipeExc = "none"
  /\ environ \in SUBSET EnvNames
  /\ dotenv \in SUBSET EnvNames
  /\ ftpNames = {}
  /\ stagesRun = <<>>

\* lines 1-2: import os; from dotenv import load_dotenv
P_Start ==
  /\ pipePc = "start"
  /\ pipePc' = "ftp_module"
  /\ UNCHANGED <<pipeExc, environ, dotenv, ftpNames, stagesRun>>
  /\ UNCHANGED notPipe

\* line 3, first half: the module dataset_extraction_ftp is executed; its
\* load_dotenv() adds the names of .env that the environment does not set
P_RunFtpModule ==
  /\ pipePc = "ftp_module"
  /\ environ' = environ \cup dotenv
  /\ ftpNames' = FtpModuleNames
  /\ pipePc' = "names"
  /\ UNCHANGED <<pipeExc, dotenv, stagesRun>>
  /\ UNCHANGED notPipe

\* line 3, second half: the three names are looked up in the module
P_ImportNames ==
  /\ pipePc = "names"
  /\ IF ImportedFromFtp \subseteq ftpNames
     THEN pipePc' = "imported" /\ pipeExc' = pipeExc
     ELSE pipePc' = "raised" /\ pipeExc' = "ImportError"
  /\ UNCHANGED <<environ, dotenv, ftpNames, stagesRun>>
  /\ UNCHANGED notPipe

PipeNext == P_Start \/ P_RunFtpModule \/ P_ImportNames

(***************************************************************************)
(* argo_pipeline.py: create_metadata_summaries, setup_vector_database      *)
(***************************************************************************)
\* str(i), the id given to the i-th summary (line 74)
Str(n) == <<"str", n>>

\* the directory name of float f on the archive, a WMO number
WMO(f) == 2902000 + f

\* lines 33-55: the summary text of one catalog row, by its parts (the
\* catalog has no column named after a biogeochemical variable, so the part
\* of lines 47-53 is always empty)
summary(row) ==
  [Float_ID |-> row.Float_ID,
   lat |-> row.LatMin,
   lon |-> row.LonMin,
   date_start |-> IF isnull(row.DateStart) THEN "unknown" ELSE "ymd",
   date_end |-> IF isnull(row.DateEnd) THEN "unknown" ELSE "ymd",
   start |-> row.DateStart,
   end |-> row.DateEnd,
   temp |-> IF ~isnull(row.TempMin) /\ ~isnull(row.TempMax)
            THEN <<row.TempMin, row.TempMax>> ELSE <<>>,
   sal |-> IF ~isnull(row.SalinityMin) /\ ~isnull(row.SalinityMax)
           THEN <<row.SalinityMin, row.SalinityMax>> ELSE <<>>]

\* lines 28-57
create_metadata_summaries(rows) == [i \in 1..Len(rows) |-> summary(rows[i])]

\* line 74: ids=[str(i) for i in range(len(summaries))]
ids(summaries) == [i \in 1..Len(summaries) |-> Str(i - 1)]

NoCollection == [exists |-> FALSE, docs |-> <<>>]

IdxInit ==
  /\ collection = NoCollection
  /\ addExisting \in {"ignored", "raises"}
  /\ idxRuns = 0
  /\ idxExc = "none"

\* the converter's raw store for the runs that feed the index
IdxRaw ==
  [Floats -> [prof : {NoFile} \cup {p \in ProfFiles : p.bytes \in {"p-one", "p-two", "p-allnan"}},
              sprof : {NoFile} \cup {p \in SprofFiles : p.bytes = "s-doxy"}]]

\* argo_pipeline.py lines 89-98 after preprocess_all_floats returned: the
\* catalog is read and handed to setup_vector_database (lines 59-76)
V_Setup ==
  /\ bpc = "returned"
  /\ idxRuns < batchNo
  /\ idxRuns' = idxRuns + 1
  /\ IF ~catalog.exists
     THEN idxExc' = "FileNotFoundError" /\ collection' = collection
     ELSE LET summaries == create_metadata_summaries(catalog.rows)
              new == ids(summaries)
              held == DOMAIN collection.docs
              fresh == {i \in 1..Len(new) : new[i] \notin held}
              put == [k \in held \cup {new[i] : i \in fresh} |->
                        IF k \in held THEN collection.docs[k]
                        ELSE summaries[CHOOSE i \in fresh : new[i] = k]]
          IN  IF addExisting = "raises" /\ fresh # 1..Len(new)
              THEN /\ idxExc' = "DuplicateIDError"
                   /\ collection' = [collection EXCEPT !.exists = TRUE]
              ELSE /\ idxExc' = "none"
                   /\ collection' = [exists |-> TRUE, docs |-> put]
  /\ UNCHANGED addExisting
  /\ UNCHANGED convVars
  /\ UNCHANGED notIdx

IdxNext == ConvNext \/ V_Setup

ConnIdle ==
  /\ retries = <<>> /\ attempts = <<>> /\ retryLog = <<>> /\ slept = <<>>
  /\ connState = <<>>

SyncIdle ==
  /\ remote = <<>> /\ store = <<>> /\ store0 = <<>>
  /\ runNo = 0 /\ runKind = "none" /\ mainPc = "off" /\ mainFtp = "none"
  /\ results = <<>> /\ wpc = <<>> /\ wftp = <<>> /\ wres = <<>>
  /\ force = <<>> /\ retr = <<>>
  /\ changed = FALSE /\ nChanges = 0 /\ sameRemote = FALSE
  /\ prevKind = "none" /\ prevOk = {}

RowsIdle ==
  /\ rPc = "off" /\ ds_prof = <<>> /\ ds_sprof = <<>>
  /\ df_prof = <<>> /\ df_sprof = <<>> /\ df = <<>>

ConvIdle ==
  /\ raw = <<>> /\ processed = <<>> /\ ledger = <<>> /\ catalog = <<>>
  /\ batchNo = 0 /\ bpc = "off" /\ prof_files = <<>> /\ updated_count = 0
  /\ cpc = "off" /\ arg_float_id = 0 /\ current_hash = <<>> /\ proc_df = <<>>
  /\ cdf = <<>> /\ variables = <<>> /\ ret = <<>> /\ raised = "none"
  /\ opened = {} /\ tables0 = <<>> /\ lastOk = <<>> /\ rawChanges = 0

PipeIdle ==
  /\ pipePc = "off" /\ pipeExc = "none" /\ environ = {} /\ dotenv = {}
  /\ ftpNames = {} /\ stagesRun = <<>>

IdxIdle ==
  /\ collection = <<>> /\ addExisting = "off" /\ idxRuns = 0 /\ idxExc = "none"

InitConn == ConnInit /\ SyncIdle /\ RowsIdle /\ ConvIdle /\ PipeIdle /\ IdxIdle
SpecConn == InitConn /\ [][ConnNext]_vars

InitSync == SyncInit /\ ConnIdle /\ RowsIdle /\ ConvIdle /\ PipeIdle /\ IdxIdle
SpecSync == InitSync /\ [][SyncNext]_vars

InitRows == RowsInit /\ ConnIdle /\ SyncIdle /\ ConvIdle /\ PipeIdle /\ IdxIdle
SpecRows == InitRows /\ [][RowsNext]_vars

InitConv == ConvInit /\ ConnIdle /\ SyncIdle /\ RowsIdle /\ PipeIdle /\ IdxIdle
SpecConv == InitConv /\ [][ConvNext]_vars

InitPipe == PipeInit /\ ConnIdle /\ SyncIdle /\ RowsIdle /\ ConvIdle /\ IdxIdle
SpecPipe == InitPipe /\ [][PipeNext]_vars

InitIdx == ConvInit /\ raw \in IdxRaw /\ IdxInit /\ ConnIdle /\ SyncIdle /\ RowsIdle /\ PipeIdle
SpecIdx == InitIdx /\ [][IdxNext]_vars

(***************************************************************************)
(* C3: connect_ftp_with_retry returns after k busy signals (k <            *)
(* MAX_RETRIES) with exactly k retry log lines and k delays of RETRY_DELAY *)
(* seconds; MAX_RETRIES busy signals in a row end in ConnectionError with  *)
(* no further attempt; a temporary error other than 421 is raised by the   *)
(* attempt that met it, without a retry for it; no activation makes more   *)
(* than MAX_RETRIES attempts.                                              *)
(***************************************************************************)
C3_RetryContract ==
  \A c \in Callers :
    /\ attempts[c] <= MAX_RETRIES
    /\ retryLog[c] = retries[c]
    /\ slept[c] = retries[c] * RETRY_DELAY
    /\ connState[c] = "returned" =>
         retries[c] < MAX_RETRIES /\ attempts[c] = retries[c] + 1
    /\ connState[c] = "ConnectionError" =>
         retries[c] = MAX_RETRIES /\ attempts[c] = MAX_RETRIES
    /\ retries[c] = MAX_RETRIES => connState[c] \in {"loop", "ConnectionError"}
    /\ connState[c] = "error_temp" => attempts[c] = retries[c] + 1
    /\ connState[c] \in {"loop"} \cup ConnectResults

\* five busy signals, then a session
C3_Witness ==
  \E c \in Callers :
    connState[c] = "returned" /\ retries[c] = 5 /\ retryLog[c] = 5


(***************************************************************************)
(* Claims about the synchronizer                                           *)
(***************************************************************************)
Kinds(msgs) == {msgs[i][1] : i \in 1..Len(msgs)}
CanonicalRoles == {"meta", "prof", "Sprof"}
Returned(f) == wpc[f] \in {"done", "collected"}

\* two batch invocations in succession, the second against the remote of the first
\* (and the remote is still the one the second saw)
SecondOfTwo == runKind = "batch" /\ prevKind = "batch" /\ sameRemote /\ ~changed

(***************************************************************************)
(* C1 as stated: after the second of two download_all_floats invocations   *)
(* with no remote change between them the local raw store is what it was   *)
(* after the first, and every float whose first sync completed has only    *)
(* 'Skipped' messages in the second.                                       *)
(***************************************************************************)
C1_AsStated ==
  (SecondOfTwo /\ mainPc \in {"returned", "raised"}) =>
     /\ store = store0
     /\ \A f \in prevOk :
          \A i \in 1..Len(results) :
             results[i][2] = f => results[i][1] \in SkipKinds

(***************************************************************************)
(* C1 amended: in the second of two download_all_floats invocations with   *)
(* no remote change between them, every float whose sync completed without *)
(* failure in the first and returns without failure in the second has the  *)
(* local files it had after the first, and exactly one message, a          *)
(* 'Skipped' one.                                                          *)
(***************************************************************************)
C1_Idempotence ==
  SecondOfTwo =>
    \A f \in prevOk :
      (Returned(f) /\ NoFailure(f)) =>
        /\ store[f] = store0[f]
        /\ Len(wres[f]) = 1
        /\ wres[f][1][1] \in SkipKinds

\* a float fully downloaded by the first invocation is skipped by the second
C1_Witness ==
  /\ SecondOfTwo
  /\ mainPc = "returned"
  /\ \E f \in prevOk :
       /\ wres[f] = <<<<"SkipUnchanged", f>>>>
       /\ store0[f]["bgc"]["Sprof"] = Full(1)
       /\ store[f] = store0[f]

(***************************************************************************)
(* C2: in a call without force_download that got the metadata file: if the *)
(* stored metadata file existed with the hash of the fetched copy, the     *)
(* temporary file is gone, the stored file is the one from before the      *)
(* call, no RETR of a profile file was issued and the only message is      *)
(* 'Skipped (meta unchanged)'; otherwise the stored file is the fetched    *)
(* copy.  No RETR of a profile file is issued before that decision.        *)
(***************************************************************************)
Decided(f) == Kinds(wres[f]) \cap {"SkipUnchanged", "MetaUpdated"} # {}

C2_MetaGate ==
  \A f \in Floats :
    (runNo >= 1 /\ ~changed /\ ~force[f]) =>
      LET dir == store[f][out_base(f)]
          old == store0[f][out_base(f)].meta
          new == Full(remote[f].ver)
      IN  /\ ~Decided(f) => retr[f] \cap {"prof", "Sprof"} = {}
          /\ Decided(f) =>
               IF old # Absent /\ file_hash(old) = file_hash(new)
               THEN /\ dir.tmp = Absent
                    /\ dir.meta = old
                    /\ retr[f] = {"meta"}
                    /\ wres[f] = <<<<"SkipUnchanged", f>>>>
                    /\ Returned(f)
               ELSE /\ dir.tmp = Absent
                    /\ dir.meta = new
                    /\ wres[f][1] = <<"MetaUpdated", f>>

\* a stored metadata file of an older version is replaced and the profile fetched
C2_Witness ==
  \E f \in Floats :
    /\ ~force[f] /\ ~changed
    /\ store0[f][out_base(f)].meta = Full(1)
    /\ store[f][out_base(f)].meta = Full(2)
    /\ "prof" \in retr[f]

(***************************************************************************)
(* C8 as stated: at every point of a sync run every file under a canonical *)
(* name (_meta.nc, _prof.nc, _Sprof.nc) is a complete copy of a remote     *)
(* version; a partially transferred file is never visible under such a     *)
(* name.                                                                   *)
(***************************************************************************)
C8_NoPartialCanonical ==
  \A f \in Floats : \A b \in Branches : \A r \in CanonicalRoles :
     store[f][b][r] # Partial

(***************************************************************************)
(* C9 as stated: no failure of a remote operation makes download_all_floats*)
(* raise; it returns its message list and every float is processed.        *)
(***************************************************************************)
C9_NeverAborts ==
  runKind = "batch" => mainPc # "raised"

(***************************************************************************)
(* Claims about nc_to_df and the merge                                     *)
(***************************************************************************)
Rows(frame) == {frame.rows[i] : i \in 1..Len(frame.rows)}
WithKey(frame, k) == {i \in 1..Len(frame.rows) : Key(frame.rows[i]) = k}

\* a value of the file that the table holds as missing
MissingInFile(var, x) == IF var = "PRES" THEN isnull(x) ELSE x.k # "num"

\* the levels of a core dataset of which at most one of pressure,
\* temperature, salinity is missing and whose cycle has a latitude or a longitude
Qualifying(ds) ==
  {<<i, j>> \in (1..Len(ds.prof)) \X (1..n_levels(ds)) :
     /\ Cardinality({v \in {"PRES", "TEMP", "PSAL"} : MissingInFile(v, ds.prof[i].lev[j][v])}) < 2
     /\ ~(isnull(ds.prof[i].LATITUDE) /\ isnull(ds.prof[i].LONGITUDE))}

(***************************************************************************)
(* C6: when a row of the core table and a row of the biogeochemical table  *)
(* share the merge key, the merged table has exactly one row with that key *)
(* and it is a row read from the biogeochemical file, with that file's     *)
(* values (the last such row of the biogeochemical table).                 *)
(***************************************************************************)
C6_MergePrecedence ==
  (rPc = "done" /\ df_sprof.cols # {}) =>
    \A i \in 1..Len(df_prof.rows) :
      LET k == Key(df_prof.rows[i])
          inS == WithKey(df_sprof, k)
          inM == WithKey(df, k)
      IN  inS # {} =>
            /\ Cardinality(inM) = 1
            /\ \A m \in inM :
                 /\ df.rows[m]["Source"] = Num(1)
                 /\ df.rows[m] =
                      df_sprof.rows[CHOOSE x \in inS : \A y \in inS : y <= x]

\* a core row without oxygen and a biogeochemical row with oxygen share the
\* key; the one merged row has the oxygen
C6_Witness ==
  /\ rPc = "done"
  /\ Len(df_prof.rows) = 1 /\ Len(df_sprof.rows) = 1 /\ Len(df.rows) = 1
  /\ Key(df_prof.rows[1]) = Key(df_sprof.rows[1])
  /\ df_prof.rows[1]["Salinity(psu)"] # df_sprof.rows[1]["Salinity(psu)"]
  /\ df.rows[1]["Dissolved_Oxygen(umol/kg)"] = Num(200)
  /\ df.rows[1]["Salinity(psu)"] = df_sprof.rows[1]["Salinity(psu)"]

(***************************************************************************)
(* C7: every row of a table the converter produces, core only or merged,   *)
(* has at most one of pressure, temperature, salinity missing and not both *)
(* latitude and longitude missing; and nc_to_df keeps every level with at  *)
(* most one of the three missing whose cycle has a position, in order (the *)
(* three levels of the scenario give three rows).                          *)
(***************************************************************************)
RowFilterHolds(frame) ==
  \A r \in Rows(frame) :
    /\ NullCount(r, key_cols) <= 1
    /\ ~(isnull(r["Latitude"]) /\ isnull(r["Longitude"]))

C7_RowFilter ==
  /\ [](rPc \in {"core", "done"} =>
          RowFilterHolds(df_prof) /\ RowFilterHolds(df_sprof) /\ RowFilterHolds(df))
  /\ [][rPc = "start" =>
          /\ Len(df_prof'.rows) = Cardinality(Qualifying(ds_prof))
          /\ \A ij \in Qualifying(ds_prof) :
               \E r \in Rows(df_prof') :
                  r["Pressure(dbar)"] = ds_prof.prof[ij[1]].lev[ij[2]]["PRES"]
          /\ (ds_prof = ScenarioDataset => Len(df_prof'.rows) = 3)]_vars

\* the scenario: three rows, the second without temperature
C7_Witness ==
  /\ rPc = "done"
  /\ Len(df.rows) = 3
  /\ isnull(df.rows[2]["Temperature(C)"])
  /\ df.rows[2]["Pressure(dbar)"] = Num(20)
  /\ df.rows[3]["Pressure(dbar)"] = Num(30)


(***************************************************************************)
(* Claims about convert_single_float and preprocess_all_floats (SpecConv)  *)
(***************************************************************************)
Activated == cpc \in {"gate", "open", "sprof", "save", "hash", "meta", "returned", "raised"}
Unchanged == [df |-> "None", updated |-> FALSE]

\* when the activation began, the ledger held the row (instrument, hash of
\* the core profile file as it is now)
HeldAtEntry ==
  /\ exists(raw[arg_float_id].prof)
  /\ tables0[2].exists
  /\ \E i \in 1..Len(tables0[2].rows) :
       tables0[2].rows[i] = [float_id |-> arg_float_id,
                             hash |-> <<"md5", raw[arg_float_id].prof.bytes>>]

\* C4: if the Hash Ledger already holds the row (instrument, h), h the
\* current content hash of the core profile file, convert_single_float
\* returns (None, False), writes neither the processed table file nor the
\* ledger nor the catalog, and opens no source file as a dataset.
C4_HashGate ==
  (Activated /\ HeldAtEntry) =>
     /\ cpc \in {"gate", "returned"}
     /\ opened = {}
     /\ <<processed, ledger, catalog>> = tables0
     /\ (cpc = "returned" => ret = Unchanged)

\* a second invocation met the row of a float that the first one converted,
\* next to the row of another float, and returned
C4_Witness ==
  /\ cpc = "returned"
  /\ HeldAtEntry
  /\ Len(tables0[2].rows) = 2
  /\ ret = Unchanged
  /\ opened = {}
  /\ batchNo = 2

Quiet == cpc \in {"idle", "returned", "raised"}
RowsOf(table, col, f) == {i \in 1..Len(table.rows) : table.rows[i][col] = f}

C5_OneRowPerFloat ==
  \A f \in Floats : /\ Cardinality(RowsOf(ledger, "float_id", f)) <= 1
                    /\ Cardinality(RowsOf(catalog, "Float_ID", f)) <= 1

C5_RowOfLastSuccess ==
  \A f \in Floats :
    /\ \A i \in RowsOf(ledger, "float_id", f) : ledger.rows[i].hash = lastOk[f].hash
    /\ \A i \in RowsOf(catalog, "Float_ID", f) :
         lastOk[f].hash # <<>> /\ catalog.rows[i] = lastOk[f].row

MissingRequired(file) ==
  file.kind = "nc" /\ ~({"PRES", "TEMP", "PSAL"} \subseteq file.ds.vars)

\* C10: when the profile file lacks pressure, temperature or salinity,
\* convert_single_float returns a failure without raising,
\* preprocess_all_floats goes on with the remaining instruments, and ledger
\* and catalog are not changed for the failing instrument.
C10_AsStated ==
  (Activated /\ MissingRequired(raw[arg_float_id].prof)) =>
     /\ cpc # "raised"
     /\ bpc # "raised"
     /\ ledger = tables0[2]
     /\ catalog = tables0[3]


ProducedAndRecorded(f, h) ==
  /\ lastOk[f].hash = h
  /\ processed[f].exists
  /\ \E j \in RowsOf(catalog, "Float_ID", f) : catalog.rows[j] = lastOk[f].row

ReRun == runNo >= 2 /\ sameRemote /\ ~changed

ProfileRoles(f) == {"prof", "Sprof"} \cap remote[f].files

\* C12: re-running the sync of an instrument, with unchanged remote content,
\* after a failure during a profile transfer fetches the missing profile
\* file(s): on a re-run an instrument is never reported 'unchanged' while
\* its local core or biogeochemical profile file is missing or incomplete.
C12_AsStated ==
  \A f \in Floats :
    (ReRun /\ Returned(f) /\ "SkipUnchanged" \in Kinds(wres[f])) =>
       \A role \in ProfileRoles(f) :
          store[f][out_base(f)][role] \notin {Absent, Partial}


(***************************************************************************)
(* Further claims about the converter (SpecConv)                           *)
(***************************************************************************)
Converted(f) == lastOk[f].hash # <<>>

\* C13: writes to the shared Hash Ledger and catalog are serialized: the
\* ledger an activation loaded is still the ledger on disk until that
\* activation writes it, and after the converter has run every successfully
\* converted instrument has its row in both tables.
C13_Serialized ==
  /\ cpc \in {"open", "sprof", "save", "hash"} => ledger.rows = proc_df
  /\ Quiet => \A f \in Floats :
       Converted(f) => /\ RowsOf(ledger, "float_id", f) # {}
                       /\ RowsOf(catalog, "Float_ID", f) # {}

\* an invocation returned with every float converted and both tables full
C13_Witness ==
  /\ bpc = "returned"
  /\ updated_count = NumFloats
  /\ \A f \in Floats : Converted(f)
  /\ Len(ledger.rows) = NumFloats
  /\ Len(catalog.rows) = NumFloats

Others(rows, col, f) == SelectSeq(rows, LAMBDA r : r[col] # f)

\* C17: an upsert for instrument X changes only X's row: the rows of every
\* other instrument are the same before and after, in the ledger and in the
\* catalog; X's row is appended if X is new and replaced wholesale if not.
C17_UpsertFrame ==
  Activated =>
    /\ Others(ledger.rows, "float_id", arg_float_id)
         = Others(tables0[2].rows, "float_id", arg_float_id)
    /\ Others(catalog.rows, "Float_ID", arg_float_id)
         = Others(tables0[3].rows, "Float_ID", arg_float_id)
    /\ ledger # tables0[2] =>
         ledger.rows = Append(Others(tables0[2].rows, "float_id", arg_float_id),
                              [float_id |-> arg_float_id, hash |-> current_hash])
    /\ catalog # tables0[3] =>
         catalog.rows = Append(Others(tables0[3].rows, "Float_ID", arg_float_id),
                               meta_entry(arg_float_id, cdf, variables))

\* a conversion replaced the rows of a float that had rows in both tables,
\* next to the rows of another float
C17_Witness ==
  /\ cpc = "returned"
  /\ ret.updated
  /\ RowsOf(tables0[2], "float_id", arg_float_id) # {}
  /\ RowsOf(tables0[3], "Float_ID", arg_float_id) # {}
  /\ Len(tables0[2].rows) = 2
  /\ Len(tables0[3].rows) = 2
  /\ ledger # tables0[2]
  /\ catalog # tables0[3]


(***************************************************************************)
(* Claims about the pipeline script (SpecPipe)                             *)
(***************************************************************************)
\* C14: one invocation of the pipeline entry point runs the synchronizer
\* over all instruments to completion, then converts every locally
\* available core profile file, and yields the count of updated instruments
\* with the synchronizer's message log: it does not end before both stages
\* have run, in that order.
C14_AsStated ==
  pipePc \in {"raised", "done"} =>
     /\ pipeExc = "none"
     /\ stagesRun = <<"sync", "convert">>


(***************************************************************************)
(* Further claims about the tables (SpecRows)                              *)
(***************************************************************************)
DistinctKeys(frame) ==
  \A i, j \in 1..Len(frame.rows) : Key(frame.rows[i]) = Key(frame.rows[j]) => i = j

\* C15: every processed table convert_single_float writes is deduplicated
\* on the merge key (instrument, cycle, timestamp, latitude, longitude,
\* pressure), with or without a biogeochemical source.
C15_AsStated == rPc = "done" => DistinctKeys(df)


\* the activation read its core file and no row survived the row filter
NothingSurvived ==
  /\ cpc \in {"sprof", "save", "hash", "meta", "returned", "raised"}
  /\ raw[arg_float_id].prof.kind = "nc"
  /\ ~MissingRequired(raw[arg_float_id].prof)
  /\ "prof" \in opened
  /\ nc_to_df(raw[arg_float_id].prof.ds, CORE_VARS, arg_float_id).rows = <<>>
  /\ ~exists(raw[arg_float_id].sprof)

\* C16: when no row of a profile survives the row filter,
\* convert_single_float returns an 'empty' outcome: the instrument is not
\* reported as updated, its hash is not recorded in the Hash Ledger, no
\* catalog row is added, and the sibling instruments are still converted
\* (nothing is raised).
C16_AsStated ==
  NothingSurvived =>
     /\ cpc # "raised"
     /\ bpc # "raised"
     /\ (cpc = "returned" => ~ret.updated)
     /\ ledger = tables0[2]
     /\ catalog = tables0[3]


(***************************************************************************)
(* Claims about the text-embedding index (SpecIdx)                         *)
(***************************************************************************)
\* C18: each catalog Summary is handed to the indexer as one upsert keyed by
\* instrument ID: after any number of runs the index holds at most one
\* entry per instrument and the key of an entry identifies its instrument,
\* whatever the row order of the catalog.
C18_AsStated ==
  \A k \in DOMAIN collection.docs :
     /\ k = Str(WMO(collection.docs[k].Float_ID))
     /\ \A l \in DOMAIN collection.docs :
          collection.docs[l].Float_ID = collection.docs[k].Float_ID => l = k


(***************************************************************************)
(* FTP sessions of the synchronizer (SpecSync)                             *)
(***************************************************************************)
OpenSessions ==
  Cardinality({f \in Floats : wftp[f] = "open"}) + (IF mainFtp = "open" THEN 1 ELSE 0)

\* C20: every FTP session opened by list_float_ids or
\* download_float_if_meta_changed is closed before the operation returns,
\* on every path, so during download_all_floats at most MAX_WORKERS
\* sessions are open at a time and none is left over from the listing.
C20_AsStated ==
  /\ mainPc \in {"pool", "returned", "raised"} => mainFtp # "open"
  /\ \A f \in Floats : wpc[f] \in {"done", "collected"} => wftp[f] # "open"
  /\ mainPc = "pool" => OpenSessions <= MAX_WORKERS


(***************************************************************************)
(* The two branches of the raw store (SpecSync)                            *)
(***************************************************************************)
\* the branches under which the raw store holds some file of float f
BranchesHolding(f) == {b \in Branches : \E r \in Roles : store[f][b][r] # Absent}

\* the files <id>_prof.nc that rglob("*_prof.nc") finds for float f
CoreProfileFiles(f) == {b \in Branches : store[f][b]["prof"] # Absent}

\* C21: after any sequence of sync runs in which the remote kind of an
\* instrument may change between runs, the raw store holds the instrument's
\* files under at most one branch, so the orchestrator finds at most one
\* core profile file per instrument ID.
C21_AsStated ==
  \A f \in Floats :
     /\ Cardinality(BranchesHolding(f)) <= 1
     /\ Cardinality(CoreProfileFiles(f)) <= 1

====
